---- MODULE Spec2Model ----
(***************************************************************************)
(* State-machine model of mjpegsw.py: the CameraControl frame store, the   *)
(* CamDaemon capture thread, the SIGINT handler, main(), the MJPEG stream  *)
(* generator create_stream_frame() and the snapshot route snap().          *)
(*                                                                         *)
(* Granularity: a program counter names the source line a thread is about  *)
(* to execute; one action executes that line.  A CameraControl method is   *)
(* two steps: the acquisition of self.lock, then the guarded assignment or *)
(* read together with the release of the lock.                             *)
(*                                                                         *)
(* Two names are read by the file and defined nowhere in it:               *)
(*   params["delay"]  (lines 256, 268; handle_args adds no such argument)  *)
(*   self.fps         (lines 106, 107, 133; __init__ never assigns it).    *)
(* has_delay and has_fps say whether the running process supplies them.    *)
(* The file as it stands is has_delay = FALSE and has_fps = FALSE; the     *)
(* other values are the file with the missing definitions supplied, which  *)
(* is the only way the lines after 256 and after 106 ever execute.         *)
(***************************************************************************)
EXTENDS Integers, Sequences, FiniteSets, TLC

\* ------------------------------------------------------------------ bounds
\* number of distinct frames the device can deliver
MaxFrames == 2
\* number of SIGINT deliveries in one run
MaxSigint == 2
\* length of the script of a component-level driver of the frame store
MaxScript == 2

\* ------------------------------------------------------------------ values
\* A frame: id 0 is Python's None; rotated marks a 180 degree rotation;
\* valid says whether the JPEG codec accepts the array.
Frame(i, r, v) == [id |-> i, rotated |-> r, valid |-> v]
None == Frame(0, FALSE, FALSE)
\* frames a device read delivers with ret = True
DeviceFrames == { Frame(i, FALSE, TRUE) : i \in 1..MaxFrames }
\* an array the codec rejects (only a component-level driver can publish it)
BadFrame == Frame(1, FALSE, FALSE)

\* values of self.fps when it is supplied
FpsValues == {-1, 0, 30}

VARIABLES
    \* configuration, fixed at start
    has_delay,      \* "delay" is a key of params
    has_fps,        \* the CamDaemon object has an attribute fps
    fps,            \* its value (meaningful when has_fps)
    rotate_image,   \* params["rotate"]
    \* CameraControl
    capturing, img, lock,
    \* process
    proc,           \* "running" | "exited"
    exitCode,       \* -1 while running
    \* main thread and the SIGINT handler that runs on it
    mainPc, sigPc, nSig,
    \* flask server accepts requests
    serving,
    \* CamDaemon thread
    camPc, ret, frame,
    \* cv2.VideoCapture handle
    opened, released,
    \* create_stream_frame generator of one viewer
    strPc, strImg, chunk,
    \* snap() request
    snapPc, snapCap, snapImg, snapResp,
    \* component-level driver of the store
    script, drvPc,
    \* history
    published,      \* frames passed to update_image so far
    fault,          \* what sent the capture loop to its except branch
    stopSeen        \* stop_capturing() has completed at least once

config  == <<has_delay, has_fps, fps, rotate_image>>
store   == <<capturing, img, lock>>
process == <<proc, exitCode>>
mainv   == <<mainPc, serving>>
sigv    == <<sigPc, nSig>>
camv    == <<camPc, ret, frame>>
devv    == <<opened, released>>
strv    == <<strPc, strImg, chunk>>
snapv   == <<snapPc, snapCap, snapImg, snapResp>>
drvv    == <<script, drvPc>>
hist    == <<published, fault, stopSeen>>
vars    == <<config, store, process, mainv, sigv, camv, devv, strv, snapv, drvv, hist>>

\* ------------------------------------------------------- pure operations
\* a stop that leaves the flag as it is
stop_capturing_noop(c) == c
\* a stop that flips the flag instead of clearing it
stop_capturing_flip(c) == ~c
\* CameraControl.stop_capturing: the value line 30 assigns to self.capturing
stop_capturing(c) == FALSE
\* an assignment that keeps part of the value it overwrites
update_image_torn(old, new_img) == [new_img EXCEPT !.valid = old.valid]
\* CameraControl.update_image: the value line 38 assigns to self.img
update_image(old, new_img) == new_img
\* CameraControl.get_image: the value line 42 returns
get_image(i) == i
\* CameraControl.is_capturing: the value line 46 returns
is_capturing(c) == c

\* cv2.rotate(frame, ROTATE_180) raises on None (a failed read leaves frame None)
CanRotate(f) == f # None
rotate(f) == [f EXCEPT !.rotated = ~@]

\* the frame line 131 publishes after lines 127-128
Processed(f, rot) == IF rot THEN rotate(f) ELSE f

\* a loop body that publishes whatever the read returned
AfterRead_Always(r, f, rot) ==
    IF rot /\ ~CanRotate(f) THEN "raise" ELSE "publish"

\* where the loop body goes after the read: lines 127-131
\*   "raise"   cv2.rotate raised (frame is None)
\*   "publish" ret is true
\*   "skip"    ret is false
AfterRead(r, f, rot) ==
    IF rot /\ ~CanRotate(f) THEN "raise"
    ELSE IF r THEN "publish" ELSE "skip"

\* line 133, sleep(1 / self.fps): ZeroDivisionError for 0, ValueError from
\* time.sleep for a negative length
Pacing(n) == IF n = 0 THEN "raise" ELSE IF n < 0 THEN "raise" ELSE "sleep"

\* a codec that rejects every array
CanEncode_Never(f) == FALSE
\* the JPEG codec: cv2.imencode / PIL save; fails on None and on a bad array
CanEncode(f) == f # None /\ f.valid
imencode(f) == [kind |-> "jpeg", of |-> f]
NoBody == [kind |-> "empty", of |-> None]

\* one part of the multipart stream, line 149
Chunk(f) == [boundary |-> "frame", type |-> "image/jpeg", body |-> imencode(f)]
NoChunk == [boundary |-> "none", type |-> "none", body |-> NoBody]

\* HTTP responses of snap()
Response(st, ty, b) == [status |-> st, type |-> ty, body |-> b]
NoResponse == Response(0, "none", NoBody)
\* line 173
EmptyImage == Response(200, "image/jpeg", NoBody)
\* an exception that leaves the view function
ServerError == Response(500, "text/html", NoBody)
\* lines 175-181
EncodeSnap(f) == IF CanEncode(f) THEN Response(200, "image/jpeg", imencode(f))
                 ELSE ServerError
\* a condition that needs both operands to hold
SnapUnavailable_Both(cap, i) == ~cap /\ i = None
\* the condition of line 172, given what is_capturing() returned and what
\* camera_control.img held when it was read
SnapUnavailable(cap, i) == ~cap \/ i = None

\* what an exception that leaves main() does to the process: traceback, status 1
UncaughtStatus == 1
\* os._exit(0), line 87
ForcedStatus == 0
\* main() returning normally
ReturnStatus == 0

Exit(code) == proc' = "exited" /\ exitCode' = code
Running == proc = "running"

\* ------------------------------------------------------------------- Init
Publish(f) == [op |-> "publish", f |-> f]
Stop == [op |-> "stop", f |-> None]
DriverOps == { Publish(f) : f \in DeviceFrames \cup {BadFrame} } \cup {Stop}
RECURSIVE SeqsUpTo(_, _)
SeqsUpTo(S, n) ==
    IF n = 0 THEN { <<>> }
    ELSE LET shorter == SeqsUpTo(S, n - 1)
         IN  shorter \cup { Append(q, x) : q \in shorter, x \in S }

\* state after the module is imported (lines 18-59) and constructed objects
\* hold what CameraControl.__init__ (23-26) gives them
InitCommon ==
    /\ capturing = TRUE /\ img = None /\ lock = "free"
    /\ proc = "running" /\ exitCode = -1
    /\ sigPc = "idle" /\ nSig = 0
    /\ ret = FALSE /\ frame = None
    /\ opened = 0 /\ released = 0
    /\ strPc = "idle" /\ strImg = None /\ chunk = NoChunk
    /\ snapPc = "idle" /\ snapCap = FALSE /\ snapImg = None /\ snapResp = NoResponse
    /\ published = {} /\ fault = "none" /\ stopSeen = FALSE

\* the process started as a script: python mjpegsw.py ...
Init ==
    /\ InitCommon
    /\ has_delay \in BOOLEAN
    /\ has_fps \in BOOLEAN
    /\ fps \in (IF has_fps THEN FpsValues ELSE {0})
    /\ rotate_image \in BOOLEAN
    /\ mainPc = "L247" /\ serving = FALSE
    /\ camPc = "unstarted"
    /\ script = <<>> /\ drvPc = "off"

\* ------------------------------------------------------- CamDaemon thread
\* the lines of the while loop of capture(), 124-133
LoopPcs == {"L124", "L124h", "L126", "L127", "L131", "L131h", "L133"}

\* a loop that returns to run() without passing line 140
LoopTarget_NoRelease(c) == IF is_capturing(c) THEN "L126" ELSE "L85"
\* a loop that goes on whatever the flag says
LoopTarget_Stays(c) == "L126"
\* a loop that is left whatever the flag says
LoopTarget_Leaves(c) == "L140"
\* line 124: into the body, or past the loop to line 140
LoopTarget(c) == IF is_capturing(c) THEN "L126" ELSE "L140"

Acquire(t) == lock = "free" /\ lock' = t
\* a with-block that does not give the lock back
Release_Kept == lock' = lock
\* the end of a with self.lock block (lines 29, 33, 37, 41, 45)
Release == lock' = "free"

\* line 83, is_capturing(): with self.lock
Run_Lock ==
    /\ Running /\ camPc = "L83" /\ Acquire("cam")
    /\ camPc' = "L83h"
    /\ UNCHANGED <<config, capturing, img, process, mainv, sigv, ret, frame,
                   devv, strv, snapv, drvv, hist>>

\* lines 83-84 and 87: the loop condition of run()
Run_IsCapturing ==
    /\ Running /\ camPc = "L83h" /\ Release
    /\ camPc' = IF is_capturing(capturing) THEN "L91" ELSE "L87"
    /\ UNCHANGED <<config, capturing, img, process, mainv, sigv, ret, frame,
                   devv, strv, snapv, drvv, hist>>

\* lines 91-103: cv2.VideoCapture(...) opens the device; format and size are set
Capture_Open ==
    /\ Running /\ camPc = "L91"
    /\ opened' = opened + 1
    /\ camPc' = "L106"
    /\ UNCHANGED <<config, store, process, mainv, sigv, ret, frame, released,
                   strv, snapv, drvv, hist>>

\* lines 106-123: self.fps is read; without the attribute AttributeError leaves
\* capture() and run() (no handler), and the thread ends
Capture_Configure ==
    /\ Running /\ camPc = "L106"
    /\ camPc' = IF has_fps THEN "L124" ELSE "raised"
    /\ UNCHANGED <<config, store, process, mainv, sigv, ret, frame, devv,
                   strv, snapv, drvv, hist>>

\* line 124, is_capturing(): with self.lock
Loop_Lock ==
    /\ Running /\ camPc = "L124" /\ Acquire("cam")
    /\ camPc' = "L124h"
    /\ UNCHANGED <<config, capturing, img, process, mainv, sigv, ret, frame,
                   devv, strv, snapv, drvv, hist>>

\* line 124: the loop condition of capture()
Loop_IsCapturing ==
    /\ Running /\ camPc = "L124h" /\ Release
    /\ camPc' = LoopTarget(capturing)
    /\ UNCHANGED <<config, capturing, img, process, mainv, sigv, ret, frame,
                   devv, strv, snapv, drvv, hist>>

\* line 126, capture.read() delivers a frame
Loop_ReadFrame ==
    /\ Running /\ camPc = "L126"
    /\ \E f \in DeviceFrames : ret' = TRUE /\ frame' = f
    /\ camPc' = "L127"
    /\ UNCHANGED <<config, store, process, mainv, sigv, devv, strv, snapv,
                   drvv, hist>>

\* line 126, capture.read() returns (False, None)
Loop_ReadNothing ==
    /\ Running /\ camPc = "L126"
    /\ ret' = FALSE /\ frame' = None
    /\ camPc' = "L127"
    /\ UNCHANGED <<config, store, process, mainv, sigv, devv, strv, snapv,
                   drvv, hist>>

\* line 126, capture.read() raises (exception mode, line 123); lines 134-135
Loop_ReadRaises ==
    /\ Running /\ camPc = "L126"
    /\ camPc' = "L136"
    /\ fault' = "read"
    /\ UNCHANGED <<config, store, process, mainv, sigv, ret, frame, devv, strv,
                   snapv, drvv, published, stopSeen>>

\* line 126, capture.read() never returns (the driver hangs): the thread
\* stays inside the call
Loop_ReadHangs ==
    /\ Running /\ camPc = "L126"
    /\ camPc' = "L126b"
    /\ UNCHANGED <<config, store, process, mainv, sigv, ret, frame, devv, strv,
                   snapv, drvv, hist>>

\* lines 127-129: rotation and the test of ret
Loop_Rotate ==
    /\ Running /\ camPc = "L127"
    /\ LET to == AfterRead(ret, frame, rotate_image) IN
        /\ camPc' = CASE to = "raise" -> "L136"
                      [] to = "publish" -> "L131"
                      [] OTHER -> "L133"
        /\ frame' = IF to = "raise" THEN frame ELSE Processed(frame, rotate_image)
        /\ fault' = IF to = "raise" THEN "rotate" ELSE fault
    /\ UNCHANGED <<config, store, process, mainv, sigv, ret, devv, strv, snapv,
                   drvv, published, stopSeen>>

\* line 131, update_image(frame): with self.lock
Loop_PublishLock ==
    /\ Running /\ camPc = "L131" /\ Acquire("cam")
    /\ camPc' = "L131h"
    /\ UNCHANGED <<config, capturing, img, process, mainv, sigv, ret, frame,
                   devv, strv, snapv, drvv, hist>>

\* lines 37-38 for the call of line 131
Loop_Publish ==
    /\ Running /\ camPc = "L131h" /\ Release
    /\ img' = update_image(img, frame)
    /\ published' = published \cup {frame}
    /\ camPc' = "L133"
    /\ UNCHANGED <<config, capturing, process, mainv, sigv, ret, frame, devv,
                   strv, snapv, drvv, fault, stopSeen>>

\* line 133, sleep(1 / self.fps), or the exception it raises (lines 134-135);
\* ret and frame are dead after this line and are cleared
Loop_Sleep ==
    /\ Running /\ camPc = "L133"
    /\ camPc' = IF Pacing(fps) = "sleep" THEN "L124" ELSE "L136"
    /\ fault' = IF Pacing(fps) = "sleep" THEN fault ELSE "sleep"
    /\ ret' = FALSE /\ frame' = None
    /\ UNCHANGED <<config, store, process, mainv, sigv, devv, strv, snapv,
                   drvv, published, stopSeen>>

\* line 136, stop_capturing(): with self.lock
Except_Lock ==
    /\ Running /\ camPc = "L136" /\ Acquire("cam")
    /\ camPc' = "L136h"
    /\ UNCHANGED <<config, capturing, img, process, mainv, sigv, ret, frame,
                   devv, strv, snapv, drvv, hist>>

\* lines 29-30 for the call of line 136, then break (137)
Except_Stop ==
    /\ Running /\ camPc = "L136h" /\ Release
    /\ capturing' = stop_capturing(capturing)
    /\ stopSeen' = TRUE
    /\ camPc' = "L140"
    /\ UNCHANGED <<config, img, process, mainv, sigv, ret, frame, devv, strv,
                   snapv, drvv, published, fault>>

\* line 140, capture.release(); capture() returns to line 85
Capture_Release ==
    /\ Running /\ camPc = "L140"
    /\ released' = released + 1
    /\ camPc' = "L85"
    /\ UNCHANGED <<config, store, process, mainv, sigv, ret, frame, opened,
                   strv, snapv, drvv, hist>>

\* line 85, sleep(5)
Run_Sleep ==
    /\ Running /\ camPc = "L85"
    /\ camPc' = "L83"
    /\ UNCHANGED <<config, store, process, mainv, sigv, ret, frame, devv, strv,
                   snapv, drvv, hist>>

\* line 87, os._exit(0)
Run_Exit ==
    /\ Running /\ camPc = "L87"
    /\ Exit(ForcedStatus)
    /\ UNCHANGED <<config, store, mainv, sigv, camv, devv, strv, snapv, drvv,
                   hist>>

CamDaemon ==
    \/ Run_Lock \/ Run_IsCapturing \/ Capture_Open \/ Capture_Configure
    \/ Loop_Lock \/ Loop_IsCapturing
    \/ Loop_ReadFrame \/ Loop_ReadNothing \/ Loop_ReadRaises
    \/ Loop_Rotate \/ Loop_PublishLock \/ Loop_Publish \/ Loop_Sleep
    \/ Except_Lock \/ Except_Stop \/ Capture_Release \/ Run_Sleep \/ Run_Exit

\* ------------------------------------------------------------ main thread
\* the handler of line 59 runs on the main thread and suspends its code
MainRuns == Running /\ sigPc = "idle"

\* lines 247-255
Main_HandleArgs ==
    /\ MainRuns /\ mainPc = "L247"
    /\ mainPc' = "L256"
    /\ UNCHANGED <<config, store, process, serving, sigv, camv, devv, strv,
                   snapv, drvv, hist>>

\* line 256, params["delay"]: KeyError leaves main() when the key is missing
Main_Delay ==
    /\ MainRuns /\ mainPc = "L256"
    /\ IF has_delay
         THEN mainPc' = "L261" /\ UNCHANGED process
         ELSE mainPc' = "raised" /\ Exit(UncaughtStatus)
    /\ UNCHANGED <<config, store, serving, sigv, camv, devv, strv, snapv, drvv,
                   hist>>

\* lines 261-270
Main_Construct ==
    /\ MainRuns /\ mainPc = "L261"
    /\ mainPc' = "L271"
    /\ UNCHANGED <<config, store, process, serving, sigv, camv, devv, strv,
                   snapv, drvv, hist>>

\* line 271, camera.start()
Main_Start ==
    /\ MainRuns /\ mainPc = "L271"
    /\ camPc' = "L83"
    /\ mainPc' = "L274"
    /\ UNCHANGED <<config, store, process, serving, sigv, ret, frame, devv,
                   strv, snapv, drvv, hist>>

\* line 274, app.run(...) starts to accept requests
Main_AppRun ==
    /\ MainRuns /\ mainPc = "L274" /\ ~serving
    /\ serving' = TRUE
    /\ UNCHANGED <<config, store, process, mainPc, sigv, camv, devv, strv,
                   snapv, drvv, hist>>

\* line 277, camera.join() returns once the thread has ended; main() returns
Main_Join ==
    /\ MainRuns /\ mainPc = "L277" /\ camPc = "raised"
    /\ mainPc' = "returned"
    /\ Exit(ReturnStatus)
    /\ UNCHANGED <<config, store, serving, sigv, camv, devv, strv, snapv, drvv,
                   hist>>

Main ==
    \/ Main_HandleArgs \/ Main_Delay \/ Main_Construct \/ Main_Start
    \/ Main_AppRun \/ Main_Join

\* ---------------------------------------------------------- SIGINT handler
\* SIGINT is delivered to the main thread (handler installed at line 59)
Sigint ==
    /\ Running /\ sigPc = "idle" /\ mainPc # "off" /\ nSig < MaxSigint
    /\ nSig' = nSig + 1
    /\ sigPc' = "L54"
    /\ UNCHANGED <<config, store, process, mainv, camv, devv, strv, snapv,
                   drvv, hist>>

\* line 54, stop_capturing(): with self.lock
Sig_Lock ==
    /\ Running /\ sigPc = "L54" /\ Acquire("sig")
    /\ sigPc' = "L54h"
    /\ UNCHANGED <<config, capturing, img, process, mainv, nSig, camv, devv,
                   strv, snapv, drvv, hist>>

\* lines 29-30 for the call of line 54
Sig_Stop ==
    /\ Running /\ sigPc = "L54h" /\ Release
    /\ capturing' = stop_capturing(capturing)
    /\ stopSeen' = TRUE
    /\ sigPc' = "L55"
    /\ UNCHANGED <<config, img, process, mainv, nSig, camv, devv, strv, snapv,
                   drvv, published, fault>>

\* line 55, sleep(0.5)
Sig_Sleep ==
    /\ Running /\ sigPc = "L55"
    /\ sigPc' = "L56"
    /\ UNCHANGED <<config, store, process, mainv, nSig, camv, devv, strv,
                   snapv, drvv, hist>>

\* line 56, raise RuntimeError: caught by line 275 only while main() is inside
\* the try of lines 272-274; anywhere else it leaves main()
Sig_Raise ==
    /\ Running /\ sigPc = "L56"
    /\ sigPc' = "idle"
    /\ IF mainPc = "L274"
         THEN mainPc' = "L277" /\ serving' = FALSE /\ UNCHANGED process
         ELSE mainPc' = "raised" /\ UNCHANGED serving /\ Exit(UncaughtStatus)
    /\ UNCHANGED <<config, store, nSig, camv, devv, strv, snapv, drvv, hist>>

Signal == Sigint \/ Sig_Lock \/ Sig_Stop \/ Sig_Sleep \/ Sig_Raise

\* ------------------------------------------------- create_stream_frame
\* GET /cam.mjpg, lines 161-166: a viewer connects
Stream_Open ==
    /\ Running /\ serving /\ strPc = "idle"
    /\ strPc' = "L144"
    /\ UNCHANGED <<config, store, process, mainv, sigv, camv, devv, strImg,
                   chunk, snapv, drvv, hist>>

\* line 144, get_image(): with self.lock
Stream_Lock ==
    /\ Running /\ strPc = "L144" /\ Acquire("stream")
    /\ strPc' = "L144h"
    /\ UNCHANGED <<config, capturing, img, process, mainv, sigv, camv, devv,
                   strImg, chunk, snapv, drvv, hist>>

\* lines 41-42 for the call of line 144, and the test of line 145
Stream_Get ==
    /\ Running /\ strPc = "L144h" /\ Release
    /\ strImg' = get_image(img)
    /\ strPc' = IF get_image(img) # None THEN "L147" ELSE "L153"
    /\ UNCHANGED <<config, capturing, img, process, mainv, sigv, camv, devv,
                   chunk, snapv, drvv, hist>>

\* a handler that ends the generator instead of continuing
OnEncodeError_Return == "idle"
\* lines 150-152, except ...: print, continue: back to line 144, past the
\* sleep of line 153
OnEncodeError == "L144"

\* lines 147-152: encode and yield the chunk, or print and continue.
\* chunk is the part the consumer is being handed; img and _buffer are dead
\* once the chunk is taken (or the encoding has failed) and are cleared then
Stream_Encode ==
    /\ Running /\ strPc = "L147"
    /\ IF CanEncode(strImg)
         THEN /\ chunk' = Chunk(strImg)
              /\ strPc' = "L149"
              /\ UNCHANGED strImg
         ELSE /\ strPc' = OnEncodeError
              /\ strImg' = None
              /\ UNCHANGED chunk
    /\ UNCHANGED <<config, store, process, mainv, sigv, camv, devv, snapv,
                   drvv, hist>>

\* the consumer asks for the next chunk: the generator resumes after line 149
Stream_Resume ==
    /\ Running /\ strPc = "L149"
    /\ strPc' = "L153"
    /\ strImg' = None /\ chunk' = NoChunk
    /\ UNCHANGED <<config, store, process, mainv, sigv, camv, devv, snapv,
                   drvv, hist>>

\* line 153, sleep(0.1)
Stream_Sleep ==
    /\ Running /\ strPc = "L153"
    /\ strPc' = "L144"
    /\ UNCHANGED <<config, store, process, mainv, sigv, camv, devv, strImg,
                   chunk, snapv, drvv, hist>>

\* the peer closes the connection: the generator is closed at its yield
Stream_Close ==
    /\ Running /\ strPc = "L149"
    /\ strPc' = "idle"
    /\ strImg' = None /\ chunk' = NoChunk
    /\ UNCHANGED <<config, store, process, mainv, sigv, camv, devv, snapv,
                   drvv, hist>>

\* the body of the generator, lines 143-153
StreamLoop ==
    \/ Stream_Lock \/ Stream_Get \/ Stream_Encode \/ Stream_Resume
    \/ Stream_Sleep

Stream == Stream_Open \/ StreamLoop \/ Stream_Close

\* ----------------------------------------------------------------- snap
\* GET /snap.jpg, line 169
Snap_Request ==
    /\ Running /\ serving /\ snapPc = "idle"
    /\ snapPc' = "L172"
    /\ snapCap' = FALSE /\ snapImg' = None /\ snapResp' = NoResponse
    /\ UNCHANGED <<config, store, process, mainv, sigv, camv, devv, strv,
                   drvv, hist>>

\* line 172, is_capturing(): with self.lock
Snap_Lock ==
    /\ Running /\ snapPc = "L172" /\ Acquire("snap")
    /\ snapPc' = "L172h"
    /\ UNCHANGED <<config, capturing, img, process, mainv, sigv, camv, devv,
                   strv, snapCap, snapImg, snapResp, drvv, hist>>

\* line 172, first operand of the or: when is_capturing() returns false the
\* second operand is not evaluated and line 173 answers
Snap_IsCapturing ==
    /\ Running /\ snapPc = "L172h" /\ Release
    /\ snapCap' = is_capturing(capturing)
    /\ IF ~is_capturing(capturing)
         THEN snapPc' = "idle" /\ snapResp' = EmptyImage
         ELSE snapPc' = "L172i" /\ UNCHANGED snapResp
    /\ UNCHANGED <<config, capturing, img, process, mainv, sigv, camv, devv,
                   strv, snapImg, drvv, hist>>

\* line 172, second operand: camera_control.img read without the lock
Snap_ReadImg ==
    /\ Running /\ snapPc = "L172i"
    /\ snapImg' = img
    /\ IF SnapUnavailable(snapCap, img)
         THEN snapPc' = "idle" /\ snapResp' = EmptyImage
         ELSE snapPc' = "L175" /\ UNCHANGED snapResp
    /\ UNCHANGED <<config, store, process, mainv, sigv, camv, devv, strv,
                   snapCap, drvv, hist>>

\* lines 175-181: camera_control.img read again without the lock, and encoded
Snap_Encode ==
    /\ Running /\ snapPc = "L175"
    /\ snapImg' = img
    /\ snapResp' = EncodeSnap(img)
    /\ snapPc' = "idle"
    /\ UNCHANGED <<config, store, process, mainv, sigv, camv, devv, strv,
                   snapCap, drvv, hist>>

Snap == Snap_Request \/ Snap_Lock \/ Snap_IsCapturing \/ Snap_ReadImg \/ Snap_Encode

\* ------------------------------------- the frame store driven directly
\* A caller that holds a CameraControl and applies a script of publish and
\* stop calls to it, while a generator made by create_stream_frame(store) is
\* consumed and snap() is called: the components without main() and CamDaemon.

\* update_image(f) or stop_capturing(): with self.lock
Drv_Lock ==
    /\ Running /\ drvPc = "call" /\ script # <<>> /\ Acquire("driver")
    /\ drvPc' = "held"
    /\ UNCHANGED <<config, capturing, img, process, mainv, sigv, camv, devv,
                   strv, snapv, script, hist>>

\* lines 37-38 or lines 29-30
Drv_Call ==
    /\ Running /\ drvPc = "held" /\ Release
    /\ LET c == Head(script) IN
         IF c.op = "publish"
           THEN /\ img' = update_image(img, c.f)
                /\ published' = published \cup {c.f}
                /\ UNCHANGED <<capturing, stopSeen>>
           ELSE /\ capturing' = stop_capturing(capturing)
                /\ stopSeen' = TRUE
                /\ UNCHANGED <<img, published>>
    /\ script' = Tail(script)
    /\ drvPc' = "call"
    /\ UNCHANGED <<config, process, mainv, sigv, camv, devv, strv, snapv,
                   fault>>

Driver == Drv_Lock \/ Drv_Call

InitStore ==
    /\ InitCommon
    /\ has_delay = FALSE /\ has_fps = FALSE /\ fps = 0 /\ rotate_image = FALSE
    /\ mainPc = "off" /\ serving = TRUE
    /\ camPc = "off"
    /\ script \in SeqsUpTo(DriverOps, MaxScript) /\ drvPc = "call"

NextStore == Driver \/ StreamLoop \/ Snap \/ Stream_Open

\* ---------------------------------------------------------- specification
Next == CamDaemon \/ Main \/ Signal \/ Stream \/ Snap

Spec == Init /\ [][Next]_vars

\* the process with every thread scheduled again and again: the capture
\* thread (device reads return), the handler once a signal is delivered,
\* and the holders of self.lock, whose critical section is one assignment
FairSpec ==
    /\ Spec
    /\ SF_vars(CamDaemon)
    /\ SF_vars(Sig_Lock \/ Sig_Stop \/ Sig_Sleep \/ Sig_Raise)
    /\ WF_vars(Stream_Get) /\ WF_vars(Snap_IsCapturing)

\* the process on a device whose read may block for ever
NextHang == Next \/ Loop_ReadHangs

SpecHang == Init /\ [][NextHang]_vars

\* the same scheduling as FairSpec; a read that hangs stays hung, and no
\* further SIGINT has to arrive
FairHang ==
    /\ SpecHang
    /\ SF_vars(CamDaemon)
    /\ SF_vars(Sig_Lock \/ Sig_Stop \/ Sig_Sleep \/ Sig_Raise)
    /\ WF_vars(Main_Join)
    /\ WF_vars(Stream_Get) /\ WF_vars(Snap_IsCapturing)

\* the store driven directly
SpecStore == InitStore /\ [][NextStore]_vars

\* the same, with the driver running its script to the end, the consumer of
\* the generator asking for chunk after chunk, and no caller kept out of
\* self.lock for ever (a holder runs one assignment and releases it)
FairStore ==
    /\ SpecStore
    /\ SF_vars(Driver)
    /\ SF_vars(StreamLoop \/ Stream_Open)
    /\ WF_vars(Snap_IsCapturing)

\* ------------------------------------------------------------ properties
Absent == {None}

\* C1: every value a reader has obtained from the store (the stream
\* generator through get_image, snap() through camera_control.img, and what
\* they have sent) is absent or a frame that update_image had been given by
\* the time of the read.
C1_ReadsArePublished ==
    /\ img \in Absent \cup published
    /\ strImg \in Absent \cup published
    /\ snapImg \in Absent \cup published
    /\ chunk # NoChunk => chunk.body.of \in published
    /\ snapResp.body # NoBody => snapResp.body.of \in published

\* C1 witness: both readers hold frames, different ones, while the capture
\* loop has published two frames
C1_Witness ==
    /\ Cardinality(published) = 2
    /\ strImg # None /\ snapImg # None /\ strImg # snapImg
    /\ snapResp.body # NoBody /\ chunk # NoChunk

\* C2: once a call of stop_capturing() has completed, capturing is false in
\* every later state, whoever made the call and however often it is repeated.
C2_StopIsTerminal == stopSeen => ~capturing

\* C2 witness: stop_capturing() has been called by the capture loop's except
\* branch and by two SIGINT handlers, and the process still runs
C2_Witness ==
    /\ stopSeen /\ ~capturing /\ Running
    /\ fault # "none" /\ camPc = "L140"
    /\ nSig = 2 /\ sigPc = "L55"

\* C3: a process started without a signal launches the capture thread and the
\* listener and the capture thread enters its loop: neither main() nor
\* CamDaemon.run() ends by an exception.
C3_StartupReachesRunning ==
    nSig = 0 => (mainPc # "raised" /\ camPc # "raised")

\* C4: when the capture thread has ended or the process has exited, every
\* handle that capture() opened has been released, once.
C4_ReleasedOnEveryPath ==
    (camPc = "raised" \/ proc = "exited") => released = opened

\* C5: in a tick whose read returned (False, None) the loop publishes nothing
\* and does not leave Running: from the rotation step it goes to the pacing
\* sleep, and from there to the next test of the loop condition.  Stated for
\* a positive fps, so that the pacing of line 133 is not what decides it.
C5_NoFrameTickContinues ==
    [][ /\ (camPc = "L127" /\ ~ret /\ fps > 0) => camPc' \in {"L127", "L133"}
        /\ (camPc = "L133" /\ ~ret /\ fps > 0) => camPc' \in {"L133", "L124"} ]_vars

\* C6: with fps <= 0 the pacing step of line 133 raises nothing: the loop
\* goes from it to the next test of the loop condition.
C6_NonPositiveFpsKeepsRunning ==
    [][ (camPc = "L133" /\ fps <= 0) => camPc' \in {"L133", "L124"} ]_vars

\* C7: after a device read has raised, the device is released only with
\* capturing already false, the capture thread stands at os._exit (line 87)
\* only with the device released, and the process does end.
C7_FaultStopsReleasesExits ==
    /\ [](fault = "read" /\ released > 0 => stopSeen /\ ~capturing)
    /\ [](fault = "read" /\ camPc = "L87"
            => released = opened /\ opened = 1 /\ ~capturing)
    /\ (fault = "read" ~> proc = "exited")

\* C7 witness: the read raised, the device was released and os._exit ended
\* the process
C7_Witness ==
    /\ fault = "read" /\ proc = "exited" /\ camPc = "L87"
    /\ released = 1 /\ opened = 1 /\ ~capturing

C9_Snapshot ==
    /\ (img = None) <=> (published = {})
    /\ (snapPc \in {"L172i", "L175"}) => snapCap
    /\ ~snapCap /\ snapResp # NoResponse => ~capturing
    /\ snapResp # NoResponse =>
         /\ snapResp.status = 200 /\ snapResp.type = "image/jpeg"
         /\ (snapResp.body = NoBody) <=> (~snapCap \/ snapImg = None)
         /\ snapResp.body # NoBody =>
              snapResp.body = imencode(snapImg) /\ snapImg \in published

\* C9 witness: a request answered with a JPEG although capturing has been
\* cleared since its check, and the frame has been replaced since
C9_Witness ==
    /\ snapPc = "idle" /\ snapResp.body # NoBody
    /\ snapCap /\ ~capturing /\ snapImg # img

\* C10 as stated: after one publish and a stop the generator emits a chunk
\* with the JPEG of the frame and later emits no more chunks.
C10_EmitsThenSettles ==
    \A f \in DeviceFrames :
        (script = <<Publish(f), Stop>>) =>
            /\ <>(strPc = "L149" /\ chunk = Chunk(f))
            /\ <>[](strPc # "L149")

\* C10 amended: after one publish and a stop the generator emits a chunk with
\* the JPEG of the frame, and goes on emitting that chunk poll after poll.
C10_EmitsAndRepeats ==
    \A f \in DeviceFrames :
        (script = <<Publish(f), Stop>>) =>
            []<>(strPc = "L149" /\ chunk = Chunk(f) /\ ~capturing)

\* C10 witness: the script is done, capturing is false and the generator is
\* at its yield with the chunk of the one published frame
C10_Witness ==
    /\ script = <<>> /\ stopSeen /\ ~capturing
    /\ Cardinality(published) = 1
    /\ strPc = "L149" /\ chunk.body.of \in published

\* C11: the generator, once started, never returns: in a tick that reads None
\* it goes to the sleep with nothing emitted, in a tick whose encoding fails
\* it goes on with nothing emitted, and it reads the store again and again,
\* also after stop_capturing().
C11_StreamNeverEnds ==
    /\ [][ /\ strPc # "idle" => strPc' # "idle"
           /\ (strPc = "L144h" /\ img = None)
                => (strPc' \in {"L144h", "L153"} /\ chunk' = NoChunk)
           /\ (strPc = "L147" /\ ~CanEncode(strImg))
                => (strPc' \in {"L147", "L144"} /\ chunk' = NoChunk) ]_vars
    /\ []<>(strPc = "L144h")
    /\ [](stopSeen => <>(strPc = "L144h" /\ ~capturing))

\* C11 witness: after stop_capturing() the generator holds a frame the codec
\* rejects and is about to fail to encode it
C11_Witness ==
    /\ stopSeen /\ ~capturing /\ script = <<>>
    /\ strPc = "L147" /\ strImg = BadFrame

\* C17: the generator comes to its read of the store (line 144) only from
\* the sleep of line 153, or from the start of the request.
C17_SleepBeforeEveryRead ==
    [][ strPc' = "L144" => strPc \in {"L144", "L153", "idle"} ]_vars

\* C12: a capture thread that reaches line 106 finds the configured fps and
\* enters the loop, and with a positive fps every publish is followed by the
\* pacing sleep of line 133 and then by the next iteration.
C12_PacedByConfiguredFps ==
    [][ /\ camPc = "L106" => camPc' \in {"L106", "L124"}
        /\ camPc = "L131h" => camPc' \in {"L131h", "L133"}
        /\ (camPc = "L133" /\ ret /\ fps > 0) => camPc' \in {"L133", "L124"}
      ]_vars

\* C13: a SIGINT delivered while the thread is stuck in capture.read() leads
\* to the end of the process.
C13_InterruptEndsHungProcess ==
    (camPc = "L126b" /\ sigPc = "L54") ~> (proc = "exited")

\* C14: the capture thread never ends by an exception that leaves run(), and
\* once run() is past its loop the process ends with the status of os._exit.
C14_ThreadEndsOnlyByExit ==
    /\ camPc # "raised"
    /\ (proc = "exited" /\ camPc = "L87") => exitCode = ForcedStatus

\* C15: the device is opened at most once: once capture() has released the
\* device capturing is false, so the test of line 83 never leads back to
\* capture().
C15_OpenedAtMostOnce ==
    /\ opened <= 1
    /\ released >= 1 => (~capturing /\ camPc \notin {"L91", "L106"})

\* C15 witness: capture() has returned and run() has tested the flag again
C15_Witness ==
    camPc = "L87" /\ opened = 1 /\ released = 1 /\ published # {}

\* C16: every step that writes img or capturing, and every step in which the
\* capture loop, the handler, the generator or snap() reads them, is taken
\* by the thread that holds self.lock.
C16_AccessUnderLock ==
    [][ /\ (capturing' # capturing \/ img' # img) => lock # "free"
        /\ (camPc \in {"L83h", "L124h"} /\ camPc' # camPc) => lock = "cam"
        /\ (sigPc = "L54h" /\ sigPc' # sigPc) => lock = "sig"
        /\ (strPc = "L144h" /\ strPc' # strPc) => lock = "stream"
        /\ (snapPc \in {"L172h", "L172i", "L175"} /\ snapPc' # snapPc)
             => lock = "snap" ]_vars

\* C18: self.lock is held by exactly the one thread that is inside a
\* CameraControl method, never by a thread that is in capture.read(), in a
\* sleep or in an encoding, and a SIGINT handler waiting for the lock at
\* line 54 gets it and finishes stop_capturing(), also when the device read
\* hangs.
C18_LockShortAndHandlerCompletes ==
    /\ [](/\ lock = "cam" <=> camPc \in {"L83h", "L124h", "L131h", "L136h"}
          /\ lock = "sig" <=> sigPc = "L54h"
          /\ lock = "stream" <=> strPc = "L144h"
          /\ lock = "snap" <=> snapPc = "L172h"
          /\ lock \in {"free", "cam", "sig", "stream", "snap"}
          /\ camPc \in {"L126", "L126b", "L127", "L133", "L85"} => lock # "cam"
          /\ sigPc = "L55" => lock # "sig"
          /\ strPc \in {"L147", "L149", "L153"} => lock # "stream"
          /\ snapPc \in {"L172i", "L175"} => lock # "snap")
    /\ (sigPc = "L54") ~> (sigPc = "L55" \/ proc = "exited")
    /\ [][sigPc = "L54h" /\ sigPc' = "L55" => ~capturing']_vars

\* C18 witness: the handler has completed stop_capturing() while the capture
\* thread is stuck in a device read that never returns
C18_Witness ==
    sigPc = "L55" /\ camPc = "L126b" /\ ~capturing /\ lock = "free"

\* C19: img, once not None, is never None again, and the frame snap() reads
\* again at line 175, after its check of line 172, and hands to the encoder
\* is a published frame, never None.
C19_NeverAbsentAgain ==
    [][ /\ img # None => img' # None
        /\ (snapPc = "L175" /\ snapPc' = "idle")
             => (img # None /\ snapImg' = img /\ snapImg' \in published
                 /\ snapResp'.body = imencode(img)) ]_vars

\* C19 witness: snap() has passed its check on one frame and is about to
\* encode after the capture loop has replaced that frame
C19_Witness ==
    /\ snapPc = "L175" /\ snapImg # None /\ img # None /\ snapImg # img
    /\ camPc \in LoopPcs

\* C20: with capturing false no new device read is started: the loop test of
\* line 124 leads to the release of line 140, a thread that has finished its
\* iteration does not come back to the read or to the publish, and the
\* thread found in the loop leaves it and releases the device.
C20_StopsAfterIterationInProgress ==
    /\ [][ /\ (~capturing /\ camPc' = "L126") => camPc = "L126"
           /\ (~capturing /\ camPc = "L124h" /\ camPc' # camPc)
                => camPc' = "L140"
           /\ (~capturing /\ camPc \in {"L133", "L124", "L124h"})
                => camPc' \notin {"L126", "L127", "L131", "L131h"} ]_vars
    /\ (~capturing /\ camPc \in LoopPcs)
         ~> (released >= 1 \/ proc = "exited")

\* C20 witness: the handler has stopped capturing and the capture thread,
\* in the iteration it had begun, is about to publish the frame it read
C20_Witness ==
    /\ sigPc = "L55" /\ ~capturing /\ fault = "none"
    /\ camPc = "L131h" /\ ret /\ frame # None

====
